---- MODULE Spec2Model ----
(***************************************************************************)
(* Model of the to_string crate (src/src/lib.rs): the IntoString trait and *)
(* its implementations for String, str, Cow<str>, OsString, OsStr,         *)
(* Cow<OsStr>, CString, CStr, Cow<CStr> and references to them.            *)
(*                                                                         *)
(* A String is modelled as its UTF-8 byte sequence together with the       *)
(* identity of the heap buffer that holds it.  The caller owns one input   *)
(* value x; s is the String returned by the last call on it.  A call       *)
(* either consumes x (depth 0) or goes through `depth` references to it.   *)
(***************************************************************************)
EXTENDS Integers, Sequences, FiniteSets, TLC

VARIABLES x, call, s, memo, nextBuf, calls

vars == <<x, call, s, memo, nextBuf, calls>>

(***************************************************************************)
(* Bounds of the model.                                                    *)
(***************************************************************************)
\* longest byte content of the input value
MaxLen == 3
\* number of into_string calls in one behaviour
MaxCalls == 2

(***************************************************************************)
(* Program constants.                                                      *)
(***************************************************************************)
\* deepest reference level with an impl: &&&&&T
MaxDepth == 5
\* deepest reference level with an impl for Cow<CStr>: &&&&Cow<CStr>
MaxDepthCowCStr == 4

\* Representative bytes: NUL, 'a', a 2-byte lead (C3), a continuation (A9),
\* a 3-byte lead (EF), the two continuations of U+FFFD (BF, BD), and a byte
\* that occurs in no UTF-8 sequence (FF).
Bytes == {0, 97, 195, 169, 239, 191, 189, 255}

\* '\u{FFFD}' encoded as UTF-8
REPLACEMENT == <<239, 191, 189>>

RECURSIVE SeqsUpTo(_)
SeqsUpTo(n) ==
    IF n = 0 THEN {<<>>}
    ELSE LET shorter == SeqsUpTo(n - 1)
         IN  shorter \cup {Append(q, c) : q \in {r \in shorter : Len(r) = n - 1}, c \in Bytes}

(***************************************************************************)
(* UTF-8 as std::str::from_utf8 and String::from_utf8_lossy read it.       *)
(***************************************************************************)
\* safe_get: the byte at index i, 0 past the end
Get(b, i) == IF i >= 1 /\ i <= Len(b) THEN b[i] ELSE 0

utf8_char_width(byte) ==
    IF byte < 128 THEN 1
    ELSE IF byte >= 194 /\ byte <= 223 THEN 2
    ELSE IF byte >= 224 /\ byte <= 239 THEN 3
    ELSE IF byte >= 240 /\ byte <= 244 THEN 4
    ELSE 0

\* a continuation byte 10xxxxxx
IsCont(byte) == byte >= 128 /\ byte <= 191

\* the second byte allowed after the lead of a 3-byte sequence
Second3(first, second) ==
    \/ first = 224 /\ second >= 160 /\ second <= 191
    \/ first >= 225 /\ first <= 236 /\ IsCont(second)
    \/ first = 237 /\ second >= 128 /\ second <= 159
    \/ first >= 238 /\ first <= 239 /\ IsCont(second)

\* the second byte allowed after the lead of a 4-byte sequence
Second4(first, second) ==
    \/ first = 240 /\ second >= 144 /\ second <= 191
    \/ first >= 241 /\ first <= 243 /\ IsCont(second)
    \/ first = 244 /\ second >= 128 /\ second <= 143

\* length of the well-formed character that starts at i, 0 when there is none
ValidLen(b, i) ==
    LET first == Get(b, i)
        w == utf8_char_width(first)
    IN  IF w = 1 THEN 1
        ELSE IF w = 2 THEN (IF IsCont(Get(b, i + 1)) THEN 2 ELSE 0)
        ELSE IF w = 3
             THEN (IF Second3(first, Get(b, i + 1)) /\ IsCont(Get(b, i + 2)) THEN 3 ELSE 0)
        ELSE IF w = 4
             THEN (IF /\ Second4(first, Get(b, i + 1))
                      /\ IsCont(Get(b, i + 2))
                      /\ IsCont(Get(b, i + 3)) THEN 4 ELSE 0)
        ELSE 0

\* length of the invalid sequence that starts at i (ValidLen(b, i) = 0): the
\* lead byte and the continuation bytes that were accepted before the break
BadLen(b, i) ==
    LET first == Get(b, i)
        w == utf8_char_width(first)
    IN  IF w = 3 /\ Second3(first, Get(b, i + 1)) THEN 2
        ELSE IF w = 4 /\ Second4(first, Get(b, i + 1))
             THEN (IF IsCont(Get(b, i + 2)) THEN 3 ELSE 2)
        ELSE 1

RECURSIVE ValidFrom(_, _)
ValidFrom(b, i) ==
    IF i > Len(b) THEN TRUE
    ELSE IF ValidLen(b, i) = 0 THEN FALSE
    ELSE ValidFrom(b, i + ValidLen(b, i))

\* std::str::from_utf8(b).is_ok()
from_utf8_ok(b) == ValidFrom(b, 1)

RECURSIVE LossyFrom(_, _)
LossyFrom(b, i) ==
    IF i > Len(b) THEN <<>>
    ELSE IF ValidLen(b, i) > 0
         THEN SubSeq(b, i, i + ValidLen(b, i) - 1) \o LossyFrom(b, i + ValidLen(b, i))
    ELSE REPLACEMENT \o LossyFrom(b, i + BadLen(b, i))

\* String::from_utf8_lossy(b): the text of OsStr::to_string_lossy on Unix
from_utf8_lossy(b) == LossyFrom(b, 1)

RECURSIVE Repeat(_)
\* (0..n).map(|_| '\u{FFFD}') collected into a String
Repeat(n) == IF n <= 0 THEN <<>> ELSE REPLACEMENT \o Repeat(n - 1)

(***************************************************************************)
(* Values.                                                                 *)
(***************************************************************************)
StrKinds == {"String", "str", "CowStrOwned", "CowStrBorrowed"}
OsKinds == {"OsString", "OsStr", "CowOsStrOwned", "CowOsStrBorrowed"}
CKinds == {"CString", "CStr", "CowCStrOwned", "CowCStrBorrowed"}
Kinds == StrKinds \cup OsKinds \cup CKinds

\* the kinds that own their buffer
OwnedKinds == {"String", "CowStrOwned", "OsString", "CowOsStrOwned", "CString", "CowCStrOwned"}

\* the byte contents a value of the kind can hold
Admissible(kind, b) ==
    /\ kind \in StrKinds => from_utf8_ok(b)
    /\ kind \in CKinds => \A i \in 1..Len(b) : b[i] # 0

NoString == [some |-> FALSE, bytes |-> <<>>, buf |-> 0]
NoCall == [some |-> FALSE, kind |-> "String", depth |-> 0, bytes |-> <<>>, buf |-> 0]
NoMemo == [some |-> FALSE, kind |-> "String", src |-> <<>>, bytes |-> <<>>]

\* a String in a buffer allocated by this call
New(b) == [bytes |-> b, buf |-> nextBuf]

\* a String that takes over the buffer of the value v
Reuse(v) == [bytes |-> v.bytes, buf |-> v.buf]

(***************************************************************************)
(* The conversions.  Each takes the value v the call is made on, a record  *)
(* [kind, bytes, buf, live], and returns the String [bytes, buf].          *)
(***************************************************************************)

\* local_to_str without the Ok arm: every input is replaced
local_to_str_always_replace(b) == Repeat(Len(b))

\* local_to_str that trusts its input (from_utf8_unchecked)
local_to_str_unchecked(b) == b

\* local_to_str with the range (1..x.len()) in the Err arm
local_to_str_off_by_one(b) ==
    IF from_utf8_ok(b) THEN b ELSE Repeat(Len(b) - 1)

local_to_str(b) ==
    IF from_utf8_ok(b) THEN b ELSE Repeat(Len(b))

\* OsStr::to_string_lossy: Cow::Borrowed of the value's own buffer when it is
\* valid UTF-8, else Cow::Owned of a freshly allocated lossy decoding
to_string_lossy(v) ==
    IF from_utf8_ok(v.bytes)
    THEN [kind |-> "CowStrBorrowed", bytes |-> v.bytes, buf |-> v.buf]
    ELSE [kind |-> "CowStrOwned", bytes |-> from_utf8_lossy(v.bytes), buf |-> nextBuf]

\* impl IntoString for Cow<str>
into_string_CowStr(v) ==
    IF v.kind = "CowStrOwned" THEN Reuse(v) ELSE New(v.bytes)

\* impl IntoString for &Cow<str> ... &&&&&Cow<str>
into_string_RefCowStr(v) == New(v.bytes)

\* impl IntoString for &str ... &&&&&str
into_string_RefStr(v) == New(v.bytes)

\* impl IntoString for String
into_string_String(v) == Reuse(v)

\* impl IntoString for &String ... &&&&&String
into_string_RefString(v) == New(v.bytes)


\* CString::into_string falling back on the lossy decoding
into_string_CString_lossy(v) ==
    IF from_utf8_ok(v.bytes) THEN Reuse(v) ELSE New(from_utf8_lossy(v.bytes))

\* impl IntoString for CString
into_string_CString(v) ==
    IF from_utf8_ok(v.bytes) THEN Reuse(v) ELSE New(local_to_str(v.bytes))

\* impl IntoString for &CString ... &&&&&CString
into_string_RefCString(v) == New(local_to_str(v.bytes))

\* impl IntoString for &CStr ... &&&&&CStr
into_string_RefCStr(v) == New(local_to_str(v.bytes))


\* Cow<CStr>::into_string that copies the owned arm too
into_string_CowCStr_copy(v) == New(local_to_str(v.bytes))

\* impl IntoString for Cow<CStr>
into_string_CowCStr(v) ==
    IF v.kind = "CowCStrOwned" THEN into_string_CString(v) ELSE New(local_to_str(v.bytes))

\* impl IntoString for &Cow<CStr> ... &&&&Cow<CStr>
into_string_RefCowCStr(v) == New(local_to_str(v.bytes))


\* OsString::into_string falling back on local_to_str
into_string_OsString_local(v) ==
    IF from_utf8_ok(v.bytes) THEN Reuse(v) ELSE New(local_to_str(v.bytes))

\* impl IntoString for OsString
into_string_OsString(v) ==
    IF from_utf8_ok(v.bytes) THEN Reuse(v) ELSE into_string_CowStr(to_string_lossy(v))

\* impl IntoString for &OsString ... &&&&&OsString
into_string_RefOsString(v) == into_string_CowStr(to_string_lossy(v))

\* impl IntoString for &OsStr ... &&&&&OsStr
into_string_RefOsStr(v) == into_string_CowStr(to_string_lossy(v))

\* impl IntoString for Cow<OsStr>
into_string_CowOsStr(v) ==
    IF v.kind = "CowOsStrOwned" THEN into_string_OsString(v) ELSE into_string_RefOsStr(v)

\* impl IntoString for &Cow<OsStr> ... &&&&&Cow<OsStr>
into_string_RefCowOsStr(v) == New(to_string_lossy(v).bytes)

(***************************************************************************)
(* The caller.                                                             *)
(***************************************************************************)

\* a call through a reference that takes the content out of the referent
AfterCall_take(v, depth) ==
    IF depth = 0 THEN [v EXCEPT !.live = FALSE] ELSE [v EXCEPT !.bytes = <<>>]

\* the caller's value after into_string(self): a value passed by value is
\* moved into the call, a value passed behind shared references is untouched
AfterCall(v, depth) ==
    IF depth = 0 THEN [v EXCEPT !.live = FALSE] ELSE v

\* one call of into_string on x through `depth` references, returning res
Invoke(depth, res) ==
    /\ calls < MaxCalls
    /\ x.live
    /\ call' = [some |-> TRUE, kind |-> x.kind, depth |-> depth,
                bytes |-> x.bytes, buf |-> x.buf]
    /\ s' = [some |-> TRUE, bytes |-> res.bytes, buf |-> res.buf]
    /\ nextBuf' = IF res.buf = nextBuf THEN nextBuf + 1 ELSE nextBuf
    /\ x' = AfterCall(x, depth)
    /\ memo' = IF depth > 0 /\ ~memo.some
               THEN [some |-> TRUE, kind |-> x.kind, src |-> x.bytes, bytes |-> res.bytes]
               ELSE memo
    /\ calls' = calls + 1

Init ==
    /\ x \in {[kind |-> k, bytes |-> b, buf |-> 1, live |-> TRUE] :
                 k \in Kinds, b \in SeqsUpTo(MaxLen)}
    /\ Admissible(x.kind, x.bytes)
    /\ call = NoCall
    /\ s = NoString
    /\ memo = NoMemo
    /\ nextBuf = 2
    /\ calls = 0

CowCStr_IntoString ==
    /\ x.kind \in {"CowCStrOwned", "CowCStrBorrowed"}
    /\ Invoke(0, into_string_CowCStr(x))

RefCowCStr_IntoString ==
    /\ x.kind \in {"CowCStrOwned", "CowCStrBorrowed"}
    /\ \E d \in 1..MaxDepthCowCStr : Invoke(d, into_string_RefCowCStr(x))

CString_IntoString ==
    /\ x.kind = "CString"
    /\ Invoke(0, into_string_CString(x))

RefCString_IntoString ==
    /\ x.kind = "CString"
    /\ \E d \in 1..MaxDepth : Invoke(d, into_string_RefCString(x))

RefCStr_IntoString ==
    /\ x.kind = "CStr"
    /\ \E d \in 1..MaxDepth : Invoke(d, into_string_RefCStr(x))

CowOsStr_IntoString ==
    /\ x.kind \in {"CowOsStrOwned", "CowOsStrBorrowed"}
    /\ Invoke(0, into_string_CowOsStr(x))

RefCowOsStr_IntoString ==
    /\ x.kind \in {"CowOsStrOwned", "CowOsStrBorrowed"}
    /\ \E d \in 1..MaxDepth : Invoke(d, into_string_RefCowOsStr(x))

OsString_IntoString ==
    /\ x.kind = "OsString"
    /\ Invoke(0, into_string_OsString(x))

RefOsString_IntoString ==
    /\ x.kind = "OsString"
    /\ \E d \in 1..MaxDepth : Invoke(d, into_string_RefOsString(x))

RefOsStr_IntoString ==
    /\ x.kind = "OsStr"
    /\ \E d \in 1..MaxDepth : Invoke(d, into_string_RefOsStr(x))

CowStr_IntoString ==
    /\ x.kind \in {"CowStrOwned", "CowStrBorrowed"}
    /\ Invoke(0, into_string_CowStr(x))

RefCowStr_IntoString ==
    /\ x.kind \in {"CowStrOwned", "CowStrBorrowed"}
    /\ \E d \in 1..MaxDepth : Invoke(d, into_string_RefCowStr(x))

RefStr_IntoString ==
    /\ x.kind = "str"
    /\ \E d \in 1..MaxDepth : Invoke(d, into_string_RefStr(x))

String_IntoString ==
    /\ x.kind = "String"
    /\ Invoke(0, into_string_String(x))

RefString_IntoString ==
    /\ x.kind = "String"
    /\ \E d \in 1..MaxDepth : Invoke(d, into_string_RefString(x))

Next ==
    \/ CowCStr_IntoString
    \/ RefCowCStr_IntoString
    \/ CString_IntoString
    \/ RefCString_IntoString
    \/ RefCStr_IntoString
    \/ CowOsStr_IntoString
    \/ RefCowOsStr_IntoString
    \/ OsString_IntoString
    \/ RefOsString_IntoString
    \/ RefOsStr_IntoString
    \/ CowStr_IntoString
    \/ RefCowStr_IntoString
    \/ RefStr_IntoString
    \/ String_IntoString
    \/ RefString_IntoString

Spec == Init /\ [][Next]_vars

\* The other family's carrier of the same bytes: CStr::to_bytes and
\* OsStr::from_bytes (Unix) view one buffer as either type.
OtherFamily(kind) ==
    CASE kind = "CString" -> "OsString"
      [] kind = "CStr" -> "OsStr"
      [] kind = "CowCStrOwned" -> "CowOsStrOwned"
      [] kind = "CowCStrBorrowed" -> "CowOsStrBorrowed"
      [] kind = "OsString" -> "CString"
      [] kind = "OsStr" -> "CStr"
      [] kind = "CowOsStrOwned" -> "CowCStrOwned"
      [] kind = "CowOsStrBorrowed" -> "CowCStrBorrowed"
      [] OTHER -> kind

\* the caller carries the bytes of x in the other family's type
Recarry ==
    /\ x.live
    /\ memo.some
    /\ x.kind = memo.kind
    /\ x.kind \in OsKinds \cup CKinds
    /\ Admissible(OtherFamily(x.kind), x.bytes)
    /\ x' = [x EXCEPT !.kind = OtherFamily(x.kind)]
    /\ UNCHANGED <<call, s, memo, nextBuf, calls>>

NextCarrier == Next \/ Recarry

SpecCarrier == Init /\ [][NextCarrier]_vars

TypeOK ==
    /\ x.kind \in Kinds
    /\ Len(x.bytes) <= MaxLen
    /\ calls \in 0..MaxCalls
    /\ s.some = (calls > 0)

(***************************************************************************)
(* Vocabulary of the properties.                                           *)
(***************************************************************************)
\* the types that cannot be trusted to hold UTF-8
Untrusted == OsKinds \cup CKinds

\* the well-formed characters of b, in order, each as its byte sequence
RECURSIVE ValidCharsFrom(_, _)
ValidCharsFrom(b, i) ==
    IF i > Len(b) THEN <<>>
    ELSE IF ValidLen(b, i) > 0
         THEN <<SubSeq(b, i, i + ValidLen(b, i) - 1)>> \o ValidCharsFrom(b, i + ValidLen(b, i))
    ELSE ValidCharsFrom(b, i + 1)

ValidChars(b) == ValidCharsFrom(b, 1)

\* a is a subsequence of c
RECURSIVE IsSubseq(_, _)
IsSubseq(a, c) ==
    IF Len(a) = 0 THEN TRUE
    ELSE IF Len(c) = 0 THEN FALSE
    ELSE IF Head(a) = Head(c) THEN IsSubseq(Tail(a), Tail(c))
    ELSE IsSubseq(a, Tail(c))

\* the characters of cs other than U+FFFD
Strip(cs) == SelectSeq(cs, LAMBDA c : c # REPLACEMENT)

\* b is U+FFFD repeated
AllReplacement(b) ==
    /\ Len(b) % 3 = 0
    /\ \A i \in 1..Len(b) : b[i] = REPLACEMENT[((i - 1) % 3) + 1]

\* b is not empty and no byte of b starts a well-formed character
NoValidByte(b) ==
    /\ Len(b) > 0
    /\ \A i \in 1..Len(b) : ValidLen(b, i) = 0

(***************************************************************************)
(* Properties.                                                             *)
(***************************************************************************)
\* C1: when the content of the input is valid UTF-8, the returned String
\* holds exactly the bytes of the input, whatever the type and depth.
C1_RoundTrip ==
    (call.some /\ from_utf8_ok(call.bytes)) => s.bytes = call.bytes

C1_Witness ==
    /\ call.some
    /\ call.kind = "CStr"
    /\ call.bytes = REPLACEMENT
    /\ s.bytes = REPLACEMENT

\* C2: every call returns a String, and the String is valid UTF-8, also when
\* the input is not.
C2_Total ==
    call.some => (s.some /\ from_utf8_ok(s.bytes))

C2_Witness ==
    /\ call.some
    /\ call.kind = "CString"
    /\ call.depth = 0
    /\ ~from_utf8_ok(call.bytes)
    /\ s.some
    /\ from_utf8_ok(s.bytes)

\* C3: for the CStr and OsStr families, an input with invalid UTF-8 comes
\* back with only its bad characters replaced by U+FFFD: the valid
\* characters of the input are in the output, unchanged and in order, and
\* every other character of the output is U+FFFD.
C3_Substitution ==
    (call.some /\ call.kind \in Untrusted /\ ~from_utf8_ok(call.bytes)) =>
        /\ IsSubseq(ValidChars(call.bytes), ValidChars(s.bytes))
        /\ Strip(ValidChars(s.bytes)) = Strip(ValidChars(call.bytes))

\* C4: for the OsStr family the result is the lossy decoding of the input,
\* on the owned path too.
C4_OsLossy ==
    (call.some /\ call.kind \in OsKinds) => s.bytes = from_utf8_lossy(call.bytes)

C4_Witness ==
    /\ call.some
    /\ call.kind = "OsString"
    /\ call.depth = 0
    /\ call.bytes = <<97, 255>>
    /\ s.bytes = <<97>> \o REPLACEMENT

\* C5: when no byte of a non-empty input belongs to a valid UTF-8 sequence,
\* the output is not empty and all of its characters are U+FFFD.
C5_AllReplacement ==
    (call.some /\ call.kind \in Untrusted /\ NoValidByte(call.bytes)) =>
        (Len(s.bytes) > 0 /\ AllReplacement(s.bytes))

C5_Witness ==
    /\ call.some
    /\ call.kind = "CowCStrBorrowed"
    /\ call.bytes = <<255>>
    /\ s.bytes = REPLACEMENT

\* C6: the returned String is the input's own buffer exactly when the input
\* is owned, passed by value and valid UTF-8; otherwise it is a buffer
\* allocated by the call.
C6_BufferReuse ==
    call.some =>
        /\ (call.depth = 0 /\ call.kind \in OwnedKinds /\ from_utf8_ok(call.bytes))
               <=> (s.buf = call.buf)
        /\ s.buf # call.buf => s.buf = nextBuf - 1

C6_Witness ==
    /\ call.some
    /\ call.kind = "CowCStrOwned"
    /\ call.depth = 0
    /\ Len(call.bytes) > 0
    /\ s.buf = call.buf

C8_DepthIndependent ==
    (call.some /\ memo.some) => s.bytes = memo.bytes

C8_Witness ==
    /\ memo.some
    /\ call.kind = "CString"
    /\ call.depth = 0
    /\ ~from_utf8_ok(call.bytes)
    /\ s.bytes = memo.bytes

\* C9: the same bytes carried by the CStr family and by the OsStr family
\* convert to the same String.
C9_Canonical ==
    (call.some /\ memo.some /\ call.kind = OtherFamily(memo.kind)) =>
        s.bytes = memo.bytes
====
